---- MODULE Spec2Model ----
(***************************************************************************)
(* Model of search-tui's interactive session (src/main.rs, fn run): the    *)
(* event loop that multiplexes terminal events with one replaceable,       *)
(* debounced external search, and the terminal output it produces.         *)
(***************************************************************************)
EXTENDS Integers, Sequences, FiniteSets

\* ---------------------------------------------------------------- bounds
MaxSubmits  == 2     \* character/backspace events (searches submitted) per session
MaxTime     == 2     \* last clock tick
MaxTimeout  == 1     \* largest configured timeout_millis
MaxResults  == 2     \* longest result list the external process prints
MaxHeight   == 3     \* tallest terminal

\* ------------------------------------------------------------- constants
QUERY_PREFIX == <<"S", "e", "a", "r", "c", "h", " ", ">", " ">>

Chars       == {"a", "b"}
IdNames     == <<"a", "b", "c", "d", "e", "f">>
Heights     == {0, MaxHeight}
Timeouts    == 0..MaxTimeout

\* The kinds of query_command the model distinguishes. A live session runs
\*   opaque       any external program: any exit status, any payload
\*   bad_template an executable/argument template that does not render
\* and the scripted scenarios run
\*   echo_a       executable "echo" printing the one-entry payload of Scenario A
\*   echo_five    executable "echo" printing the five entries of Scenario C
QueryCommands == {"opaque", "bad_template"}
FiveEntries == <<IdNames[1], IdNames[2], IdNames[3], IdNames[4], IdNames[5]>>

Min(a, b) == IF a < b THEN a ELSE b
Max(a, b) == IF a > b THEN a ELSE b

\* Option<SearchResult>: None, or the results vector (entries are named by
\* their identifier).
None == [some |-> FALSE, results |-> <<>>]
Some(rs) == [some |-> TRUE, results |-> rs]

\* The result lists an external process can print: the first j entries of
\* a catalogue of MaxResults entries, the empty list included.
ResultLists ==
    { [k \in 1..j |-> IdNames[k]] : j \in 0..MaxResults }

\* Outcome of one run of the body of search() after the sleep: ran says
\* whether the external process was spawned.
OkOutcome(rs)     == [ok |-> TRUE, results |-> rs, msg |-> "", ran |-> TRUE]
ErrOutcome(m, rn) == [ok |-> FALSE, results |-> <<>>, msg |-> m, ran |-> rn]

SearchOutcomes(cmd) ==
    CASE cmd = "echo_a"       -> {OkOutcome(<<"a">>)}
      [] cmd = "echo_five"    -> {OkOutcome(FiveEntries)}
      [] cmd = "bad_template" -> {ErrOutcome("template", FALSE)}
      [] OTHER                ->
            {OkOutcome(rs) : rs \in ResultLists}
              \cup {ErrOutcome("boom, status error 1", TRUE),
                    ErrOutcome("decode", TRUE)}

\* The pinned Fuse<search future>: terminated, created (never polled, the
\* sleep not yet started), sleeping until deadline, or running (inside the
\* poll that got past the sleep, waiting in Command::output() for the
\* external process to exit).
Terminated == [state |-> "terminated", query |-> <<>>, deadline |-> 0, gen |-> 0]
NewSearchBeforePush(q, g) ==
    [state |-> "created", query |-> SubSeq(q, 1, Len(q) - 1), deadline |-> 0,
     gen |-> g]
NewSearch(q, g) == [state |-> "created", query |-> q, deadline |-> 0, gen |-> g]

VARIABLES
    timeout_millis,   \* config.timeout_millis
    query_command,    \* config.query_command (kind)
    query,            \* String query
    selected_index,   \* usize selected_index
    current_result,   \* Option<SearchResult>
    search_future,    \* the pinned, fused search future
    returned,         \* run has returned to main
    result,           \* what run returned
    raw_mode,         \* terminal is in raw mode
    cursor,           \* terminal cursor, line 0 is the query line
    saved,            \* position stored by SavePosition
    query_line,       \* text shown on the query line
    below,            \* lines shown below the query line
    term_height,      \* rows of the terminal, as size() reports
    now,              \* clock, in milliseconds
    events,           \* the terminal event source
    io_faults,        \* terminal writes may fail
    typed,            \* history: character and backspace keys handled
    subs,             \* history: searches submitted
    completions,      \* history: search completions handled
    last_handler      \* history: the handler that ran last

config   == <<timeout_millis, query_command, io_faults>>
locals   == <<query, selected_index, current_result>>
exit     == <<returned, result, raw_mode>>
screen   == <<cursor, saved, query_line, below>>
history  == <<typed, subs, completions>>
vars     == <<timeout_millis, query_command, query, selected_index,
              current_result, search_future, returned, result, raw_mode,
              cursor, saved, query_line, below, term_height, now, events,
              io_faults, typed, subs, completions, last_handler>>

Running == [tag |-> "Running", identifier |-> ""]
OkNone  == [tag |-> "None", identifier |-> ""]
OkSome(id) == [tag |-> "Some", identifier |-> id]
Err(m)  == [tag |-> "Err", identifier |-> m]

\* ------------------------------------------------------------ event source
Key(k)    == [type |-> "Key", code |-> k, c |-> "", h |-> 0]
Char(c)   == [type |-> "Key", code |-> "Char", c |-> c, h |-> 0]
Resize(h) == [type |-> "Resize", code |-> "", c |-> "", h |-> h]

Live == [live |-> TRUE, script |-> <<>>]
Script(s) == [live |-> FALSE, script |-> s]
ScenarioA == <<Char("a"), Key("Enter")>>
ScenarioC == <<Char("a"), Key("Down"), Key("Down"), Key("Down"), Key("Down"),
               Key("Down")>>

\* The sessions explored: a live terminal with a command whose output is
\* not fixed or whose template does not render; the script of Scenario A
\* with its echo; and Scenario C, its five entries on a terminal of five
\* rows (three visible result rows).
Setups ==
    ({Live} \X QueryCommands \X Heights)
      \cup ({Script(ScenarioA)} \X {"echo_a"} \X Heights)
      \cup {<<Script(ScenarioC), "echo_five", 5>>}

\* next_event yields e: a live source yields anything, a scripted one its
\* next event.
Yields(e) ==
    \/ events.live
    \/ events.script # <<>> /\ Head(events.script) = e

Consume ==
    events' = IF events.live THEN events ELSE Script(Tail(events.script))


\* ------------------------------------------------------------ pure pieces
\* String::push and String::pop
PushFront(q, c) == <<c>> \o q
Push(q, c) == Append(q, c)
Pop(q) == IF q = <<>> THEN q ELSE SubSeq(q, 1, Len(q) - 1)

\* search_future.set(new): the slot holds the new future, the old one is dropped
ReplaceIfIdle(old, new) == IF old.state = "terminated" THEN new ELSE old
Replace(old, new) == new

\* tokio::time::sleep(timeout_millis), started at the first poll at time t
DeadlineNoDelay(t, timeout) == t
Deadline(t, timeout) == t + timeout

\* the poll of the search future at time t gets past the sleep
PastSleep(sf, t, timeout) ==
    \/ sf.state = "created" /\ t >= Deadline(t, timeout)
    \/ sf.state = "sleeping" /\ t >= sf.deadline

\* the executable and argument templates render
Renders(cmd) == cmd # "bad_template"

\* Command::output() is the blocking std call: while the process runs, the
\* one task that polls the event stream is stuck inside the poll of the search
Blocked(sf) == sf.state = "running"

\* Fuse: once the search future has returned Ready it is terminated
StillReady(sf) == sf
AfterReady(sf) == Terminated

\* current_result.replace(result) on success, current_result.take() on failure
InstalledKeepsOld(cr, outcome) ==
    IF outcome.ok THEN Some(outcome.results) ELSE cr
Installed(cr, outcome) ==
    IF outcome.ok THEN Some(outcome.results) ELSE None

\* KeyCode::Up and KeyCode::Down on num_results > 0 entries
UpIndexSaturating(i, num_results) == IF i = 0 THEN 0 ELSE i - 1
UpIndex(i, num_results) == (i + num_results - 1) % num_results
DownIndex(i, num_results) == (i + 1) % num_results

\* selected_index = 0 at the end of both completion arms
KeepIndex(i) == i
ResetIndex(i) == 0

\* result.results.get(i), zero-based: the identifier to break with, if any
GetFirst(rs, i) == IF rs # <<>> THEN <<rs[1]>> ELSE <<>>
Get(rs, i) == IF i < Len(rs) THEN <<rs[i + 1]>> ELSE <<>>
EnterBreakInverted(cr, i) == IF cr.some THEN <<>> ELSE Get(cr.results, i)
EnterBreak(cr, i) == IF cr.some THEN Get(cr.results, i) ELSE <<>>

\* the value of `break None`
EscBreak == OkNone

\* ------------------------------------------------------------ the screen
EntryRow(entry_index, id, display_index) ==
    [kind |-> "entry", index |-> entry_index, identifier |-> id,
     display_index |-> display_index, highlighted |-> display_index = 0,
     text |-> ""]
NoticeRow == [kind |-> "notice", index |-> 0, identifier |-> "",
              display_index |-> 0, highlighted |-> FALSE,
              text |-> "no entries found"]
ErrorRow(m) == [kind |-> "error", index |-> 0, identifier |-> "",
                display_index |-> 0, highlighted |-> FALSE, text |-> m]

\* Print("\r"): the cursor goes to column 0 of its line
NoCarriageReturn(cur) == cur
CarriageReturn(cur) == [line |-> cur.line, col |-> 0]

\* Clear(ClearType::FromCursorDown). A line below the query line holding the
\* cursor was printed up to the cursor, so it is kept whole.
ClearedQueryLine(cur, ql) ==
    IF cur.line = 0 THEN SubSeq(ql, 1, Min(cur.col, Len(ql))) ELSE ql
ClearedBelow(cur, rows) == SubSeq(rows, 1, Min(cur.line, Len(rows)))

\* update_query: the query line after the redraw and the cursor saved at its end
QueryLine(q) == QUERY_PREFIX \o q
QueryCursor(q) == [line |-> 0, col |-> Len(QUERY_PREFIX) + Len(q)]

\* update_results: the rows printed below the cursor's line
MaxResultsShownLessOne(height) == Max(height, 1) - 1
MaxResultsShown(height) == Max(height, 2) - 2
ResultRows(cr, sel, height) ==
    IF ~cr.some THEN <<>>
    ELSE IF Len(cr.results) = 0 THEN <<NoticeRow>>
    ELSE [r \in 1..Min(Len(cr.results), MaxResultsShown(height)) |->
            EntryRow((sel + r - 1) % Len(cr.results),
                     cr.results[((sel + r - 1) % Len(cr.results)) + 1],
                     r - 1)]
update_results(cur, rows, cr, sel, height) ==
    ClearedBelow(cur, rows) \o ResultRows(cr, sel, height)

\* Print("\r\n{err}"): the error text replaces the line under the cursor and
\* the cursor ends behind it (only its line matters to the clear that follows)
PrintErrorCursor(cur) == [line |-> cur.line + 1, col |-> 1]
PrintError(cur, rows, m) ==
    SubSeq(rows, 1, Min(cur.line, Len(rows))) \o <<ErrorRow(m)>>
      \o SubSeq(rows, cur.line + 2, Len(rows))

\* whether a terminal write succeeds
WriteOutcomes == IF io_faults THEN BOOLEAN ELSE {TRUE}


\* ------------------------------------------------------------ initial state
\* run after lines 48-57: raw mode on, the prefix printed and the cursor
\* saved behind it, no query, no result, a terminated search future.
Init ==
    /\ timeout_millis \in Timeouts
    /\ io_faults = FALSE
    /\ \E setup \in Setups :
          /\ events = setup[1]
          /\ query_command = setup[2]
          /\ term_height = setup[3]
    /\ query = <<>>
    /\ selected_index = 0
    /\ current_result = None
    /\ search_future = Terminated
    /\ returned = FALSE
    /\ result = Running
    /\ raw_mode = TRUE
    /\ cursor = QueryCursor(<<>>)
    /\ saved = QueryCursor(<<>>)
    /\ query_line = QUERY_PREFIX
    /\ below = <<>>
    /\ now = 0
    /\ typed = <<>>
    /\ subs = <<>>
    /\ completions = <<>>
    /\ last_handler = "none"

\* ------------------------------------------------------------ leaving run
\* `?` on a failed call: run returns the error at once.
Propagate(m) ==
    /\ returned' = TRUE
    /\ result' = Err(m)
    /\ UNCHANGED raw_mode

\* `break value`, then lines 152-154: carriage return, clear from the cursor
\* down, disable raw mode, return Ok(value).
Break(value) ==
    \E wrote \in WriteOutcomes, disabled \in WriteOutcomes :
        /\ returned' = TRUE
        /\ IF wrote
           THEN /\ cursor' = CarriageReturn(cursor)
                /\ query_line' = ClearedQueryLine(CarriageReturn(cursor), query_line)
                /\ below' = ClearedBelow(CarriageReturn(cursor), below)
                /\ raw_mode' = ~disabled
                /\ result' = IF disabled THEN value ELSE Err("disable_raw_mode")
           ELSE /\ UNCHANGED <<cursor, query_line, below, raw_mode>>
                /\ result' = Err("write")
        /\ UNCHANGED saved

\* ------------------------------------------------------------ key events
\* a query change: redraw the query line, then replace the search future
QueryChangedResetsIndex(q, name, key) ==
    /\ query' = q
    /\ typed' = Append(typed, key)
    /\ last_handler' = name
    /\ Consume
    /\ \E wrote \in WriteOutcomes :
        IF wrote
        THEN /\ cursor' = QueryCursor(q)
             /\ saved' = QueryCursor(q)
             /\ query_line' = QueryLine(q)
             /\ search_future' =
                    Replace(search_future, NewSearch(q, Len(subs) + 1))
             /\ subs' = Append(subs, [t |-> now, q |-> q])
             /\ UNCHANGED <<exit, below>>
        ELSE /\ Propagate("write")
             /\ UNCHANGED <<screen, search_future, subs>>
    /\ selected_index' = 0
    /\ UNCHANGED <<config, current_result, term_height, now, completions>>

QueryChanged(q, name, key) ==
    /\ query' = q
    /\ typed' = Append(typed, key)
    /\ last_handler' = name
    /\ Consume
    /\ \E wrote \in WriteOutcomes :
        IF wrote
        THEN /\ cursor' = QueryCursor(q)
             /\ saved' = QueryCursor(q)
             /\ query_line' = QueryLine(q)
             /\ search_future' =
                    Replace(search_future, NewSearch(q, Len(subs) + 1))
             /\ subs' = Append(subs, [t |-> now, q |-> q])
             /\ UNCHANGED <<exit, below>>
        ELSE /\ Propagate("write")
             /\ UNCHANGED <<screen, search_future, subs>>
    /\ UNCHANGED <<config, selected_index, current_result, term_height, now,
                   completions>>

OnChar(c) ==
    /\ ~returned
    /\ ~Blocked(search_future)
    /\ Yields(Char(c))
    /\ Len(subs) < MaxSubmits
    /\ QueryChanged(Push(query, c), "Char", c)

OnBackspace ==
    /\ ~returned
    /\ ~Blocked(search_future)
    /\ Yields(Key("Backspace"))
    /\ Len(subs) < MaxSubmits
    /\ QueryChanged(Pop(query), "Backspace", "Backspace")

\* Up and Down: move the selection and redraw, when there are results
Navigate(index, name) ==
    /\ last_handler' = name
    /\ Consume
    /\ IF current_result.some /\ Len(current_result.results) > 0
       THEN /\ selected_index' = index
            /\ \E wrote \in WriteOutcomes :
                IF wrote
                THEN /\ below' = update_results(cursor, below, current_result,
                                                index, term_height)
                     /\ cursor' = saved
                     /\ UNCHANGED exit
                ELSE /\ Propagate("write")
                     /\ UNCHANGED <<cursor, below>>
       ELSE UNCHANGED <<selected_index, cursor, below, exit>>
    /\ UNCHANGED <<config, query, current_result, search_future, saved,
                   query_line, term_height, now, history>>

OnUp ==
    /\ ~returned
    /\ ~Blocked(search_future)
    /\ Yields(Key("Up"))
    /\ Navigate(IF Len(current_result.results) > 0
                THEN UpIndex(selected_index, Len(current_result.results))
                ELSE selected_index, "Up")

OnDown ==
    /\ ~returned
    /\ ~Blocked(search_future)
    /\ Yields(Key("Down"))
    /\ Navigate(IF Len(current_result.results) > 0
                THEN DownIndex(selected_index, Len(current_result.results))
                ELSE selected_index, "Down")

OnEsc ==
    /\ ~returned
    /\ ~Blocked(search_future)
    /\ Yields(Key("Esc"))
    /\ last_handler' = "Esc"
    /\ Consume
    /\ Break(EscBreak)
    /\ UNCHANGED <<config, locals, search_future, term_height, now, history>>

OnEnter ==
    /\ ~returned
    /\ ~Blocked(search_future)
    /\ Yields(Key("Enter"))
    /\ last_handler' = "Enter"
    /\ Consume
    /\ IF EnterBreak(current_result, selected_index) # <<>>
       THEN Break(OkSome(EnterBreak(current_result, selected_index)[1]))
       ELSE UNCHANGED <<exit, screen>>
    /\ UNCHANGED <<config, locals, search_future, term_height, now, history>>

\* any other key: `_ => {}`
OnOtherKey ==
    /\ ~returned
    /\ ~Blocked(search_future)
    /\ Yields(Key("Other"))
    /\ last_handler' = "Ignored"
    /\ Consume
    /\ UNCHANGED <<config, locals, search_future, exit, screen, term_height,
                   now, history>>

\* ------------------------------------------------------------ other events
\* the terminal now has h rows; redraw the result list
OnResizeRestartsDelay(h) ==
    /\ ~returned
    /\ ~Blocked(search_future)
    /\ Yields(Resize(h))
    /\ last_handler' = "Resize"
    /\ Consume
    /\ term_height' = h
    /\ \E wrote \in WriteOutcomes :
        IF wrote
        THEN /\ below' = update_results(cursor, below, current_result,
                                        selected_index, h)
             /\ cursor' = saved
             /\ UNCHANGED exit
        ELSE /\ Propagate("write")
             /\ UNCHANGED <<cursor, below>>
    /\ search_future' = IF search_future.state = "sleeping"
                        THEN [search_future EXCEPT !.state = "created"]
                        ELSE search_future
    /\ UNCHANGED <<config, locals, saved, query_line, now, history>>

OnResize(h) ==
    /\ ~returned
    /\ ~Blocked(search_future)
    /\ Yields(Resize(h))
    /\ last_handler' = "Resize"
    /\ Consume
    /\ term_height' = h
    /\ \E wrote \in WriteOutcomes :
        IF wrote
        THEN /\ below' = update_results(cursor, below, current_result,
                                        selected_index, h)
             /\ cursor' = saved
             /\ UNCHANGED exit
        ELSE /\ Propagate("write")
             /\ UNCHANGED <<cursor, below>>
    /\ UNCHANGED <<config, locals, search_future, saved, query_line, now,
                   history>>

\* mouse, focus, paste: `_ => {}`
OnOtherEvent ==
    /\ ~returned
    /\ ~Blocked(search_future)
    /\ Yields([type |-> "Other", code |-> "", c |-> "", h |-> 0])
    /\ last_handler' = "Ignored"
    /\ Consume
    /\ UNCHANGED <<config, locals, search_future, exit, screen, term_height,
                   now, history>>

\* Some(Err(error)) => return Err(error.into())
OnEventError ==
    /\ ~returned
    /\ ~Blocked(search_future)
    /\ Yields([type |-> "Error", code |-> "", c |-> "", h |-> 0])
    /\ last_handler' = "EventError"
    /\ Consume
    /\ Propagate("event")
    /\ UNCHANGED <<config, locals, search_future, screen, term_height, now,
                   history>>

\* None => {}
OnStreamEnd ==
    /\ ~returned
    /\ ~Blocked(search_future)
    /\ Yields([type |-> "End", code |-> "", c |-> "", h |-> 0])
    /\ last_handler' = "Ignored"
    /\ Consume
    /\ UNCHANGED <<config, locals, search_future, exit, screen, term_height,
                   now, history>>

\* ------------------------------------------------------------ the search
\* the first poll of a search whose sleep does not end at once: the timer starts
StartSleep ==
    /\ ~returned
    /\ ~Blocked(search_future)
    /\ search_future.state = "created"
    /\ ~PastSleep(search_future, now, timeout_millis)
    /\ search_future' = [search_future EXCEPT
                            !.state = "sleeping",
                            !.deadline = Deadline(now, timeout_millis)]
    /\ UNCHANGED <<config, locals, exit, screen, term_height, now, events,
                   history, last_handler>>

\* a poll of the search past its sleep, the templates rendering: the
\* external process is spawned and the poll waits in output() for its exit
SpawnProcess ==
    /\ ~returned
    /\ PastSleep(search_future, now, timeout_millis)
    /\ Renders(query_command)
    /\ search_future' = [search_future EXCEPT !.state = "running"]
    /\ UNCHANGED <<config, locals, exit, screen, term_height, now, events,
                   history, last_handler>>

\* the poll of the search returns Ready (the process has exited, or the
\* templates did not render) and the select! arm handles what it returns
SearchComplete ==
    /\ ~returned
    /\ \/ search_future.state = "running"
       \/ PastSleep(search_future, now, timeout_millis)
            /\ ~Renders(query_command)
    /\ last_handler' = "SearchComplete"
    /\ search_future' = AfterReady(search_future)
    /\ \E outcome \in SearchOutcomes(query_command), wrote \in WriteOutcomes :
        /\ completions' = Append(completions,
                [gen |-> search_future.gen, q |-> search_future.query,
                 latest |-> Len(subs), ran |-> outcome.ran,
                 ok |-> outcome.ok])
        /\ current_result' = Installed(current_result, outcome)
        /\ IF wrote
           THEN /\ below' =
                    IF outcome.ok
                    THEN update_results(cursor, below, Some(outcome.results),
                                        selected_index, term_height)
                    ELSE update_results(PrintErrorCursor(cursor),
                                        PrintError(cursor, below, outcome.msg),
                                        None, selected_index, term_height)
                /\ cursor' = saved
                /\ selected_index' = ResetIndex(selected_index)
                /\ UNCHANGED exit
           ELSE /\ Propagate("write")
                /\ UNCHANGED <<cursor, below, selected_index>>
    /\ UNCHANGED <<config, query, saved, query_line, term_height, now, events,
                   typed, subs>>

\* ------------------------------------------------------------ time
Tick ==
    /\ ~returned
    /\ now < MaxTime
    /\ now' = now + 1
    /\ UNCHANGED <<config, locals, search_future, exit, screen, term_height,
                   events, history, last_handler>>

Next ==
    \/ \E c \in Chars : OnChar(c)
    \/ OnBackspace
    \/ OnUp
    \/ OnDown
    \/ OnEsc
    \/ OnEnter
    \/ OnOtherKey
    \/ \E h \in Heights : OnResize(h)
    \/ OnOtherEvent
    \/ OnEventError
    \/ OnStreamEnd
    \/ StartSleep
    \/ SpawnProcess
    \/ SearchComplete
    \/ Tick

Spec == Init /\ [][Next]_vars

\* the same session on a terminal whose writes and mode switches can fail
InitIO ==
    \E faults \in BOOLEAN :
        /\ io_faults = faults
        /\ timeout_millis \in Timeouts
        /\ \E setup \in Setups :
              /\ events = setup[1]
              /\ query_command = setup[2]
              /\ term_height = setup[3]
        /\ query = <<>>
        /\ selected_index = 0
        /\ current_result = None
        /\ search_future = Terminated
        /\ returned = FALSE
        /\ result = Running
        /\ raw_mode = TRUE
        /\ cursor = QueryCursor(<<>>)
        /\ saved = QueryCursor(<<>>)
        /\ query_line = QUERY_PREFIX
        /\ below = <<>>
        /\ now = 0
        /\ typed = <<>>
        /\ subs = <<>>
        /\ completions = <<>>
        /\ last_handler = "none"

SpecIO == InitIO /\ [][Next]_vars

\* ================================================================ claims

\* C1: latest wins. Every search completion that is handled is the
\* completion of the search submitted last before it: once a character or
\* backspace event has submitted a new search, no outcome of an earlier
\* search reaches the completion handler.
C1_LatestWins ==
    \A n \in DOMAIN completions : completions[n].gen = completions[n].latest

\* a search was superseded while pending, and its successor was delivered
C1_Witness ==
    \E n \in DOMAIN completions :
        /\ completions[n].gen >= 2
        /\ \A m \in DOMAIN completions :
              completions[m].gen # completions[n].gen - 1

\* the completions of submissions i..j for which the external process ran
C2_Runs(i, j) ==
    {n \in DOMAIN completions :
        completions[n].ran /\ completions[n].gen \in i..j}
\* submissions i..j were each made less than timeout_millis after the one before
C2_Burst(i, j) ==
    \A k \in i..(j - 1) : subs[k + 1].t - subs[k].t < timeout_millis

\* C2: debounce coalescing. For N >= 1 submissions each made less than
\* timeout_millis after the one before, the external process is executed at
\* most once, and with the query text of the last of them.
C2_Debounce ==
    \A i \in DOMAIN subs : \A j \in i..Len(subs) :
        C2_Burst(i, j) =>
            /\ Cardinality(C2_Runs(i, j)) <= 1
            /\ \A n \in C2_Runs(i, j) : completions[n].q = subs[j].q

\* two query changes less than timeout_millis apart, and the process was run
\* for the second
C2_Witness ==
    /\ Len(subs) >= 2
    /\ subs[2].t - subs[1].t < timeout_millis
    /\ subs[2].q # subs[1].q
    /\ \E n \in DOMAIN completions :
          completions[n].ran /\ completions[n].gen = 2

\* C3: whenever run has returned control to its caller, the terminal is back
\* in cooked mode.
C3_RawModeRestored == returned => ~raw_mode

\* C4: Escape, handled in any session state, ends the session with outcome
\* none, the cursor at column 0, everything from the cursor down cleared and
\* the terminal in cooked mode.
C4_EscapeCancels ==
    last_handler = "Esc" =>
        /\ returned
        /\ result = OkNone
        /\ cursor = [line |-> 0, col |-> 0]
        /\ query_line = <<>>
        /\ below = <<>>
        /\ ~raw_mode

\* Escape was handled while results were held and a newer search was still
\* in its debounce delay
C4_Witness ==
    /\ last_handler = "Esc"
    /\ returned
    /\ search_future.state = "sleeping"
    /\ current_result.some
    /\ current_result.results # <<>>

\* what a step that handles Enter does
C5_EnterStep ==
    OnEnter =>
        IF current_result.some /\ selected_index < Len(current_result.results)
        THEN /\ returned'
             /\ result' = OkSome(current_result.results[selected_index + 1])
        ELSE /\ ~returned'
             /\ UNCHANGED <<query, current_result, selected_index,
                            search_future>>

\* C5: Enter ends the session with the identifier of the entry at
\* selected_index when a result set is held and selected_index addresses one
\* of its entries; with no result set, or an empty one, Enter leaves the
\* session running and the query, the result set, the selection and the
\* pending search as they were.
C5_Enter == [][C5_EnterStep]_vars

\* Enter returned the identifier of an entry other than the first
C5_Witness ==
    /\ last_handler = "Enter"
    /\ returned
    /\ selected_index > 0
    /\ result = OkSome(current_result.results[selected_index + 1])

\* Scenario A has run: delay 0, the search always printing the one entry
\* "a", the events Char('a') then Enter and the search completion all handled
C6_ScenarioADone ==
    /\ events = Script(<<>>)
    /\ timeout_millis = 0
    /\ query_command = "echo_a"
    /\ search_future.state = "terminated"

\* C6 as claimed: once Scenario A has run, the session has ended with
\* identifier "a", in whichever order Enter and the search completion were
\* handled.
C6_AnyOrder ==
    C6_ScenarioADone => returned /\ result = OkSome("a")

\* C6 amended: once Scenario A has run, the session has ended with identifier
\* "a" if the completion was handled before Enter; if Enter was handled
\* first it did nothing, and the session is still running with the entry
\* "a" installed.
C6_CompletionFirst ==
    C6_ScenarioADone =>
        /\ last_handler = "Enter" =>
              returned /\ result = OkSome("a") /\ ~raw_mode
        /\ last_handler = "SearchComplete" =>
              ~returned /\ current_result = Some(<<"a">>)
        /\ last_handler \in {"Enter", "SearchComplete"}

\* Scenario A ran with the completion handled before Enter
C6_Witness ==
    /\ C6_ScenarioADone
    /\ last_handler = "Enter"
    /\ result = OkSome("a")

\* what a step that handles a search completion does to the selection
C7_CompletionStep == SearchComplete /\ ~returned' => selected_index' = 0

\* C7: a search completion, successful or failed, leaves selected_index at 0
\* when its handler finishes, whatever it was before.
C7_CompletionResetsIndex == [][C7_CompletionStep]_vars

\* a completion was handled while the selection was not 0: the rows it drew
\* start at the old selection, and the selection is 0 now
C7_Witness ==
    /\ last_handler = "SearchComplete"
    /\ below # <<>>
    /\ below[1].kind = "entry"
    /\ below[1].index # 0
    /\ selected_index = 0

\* the selection moves by delta modulo the result count, or nothing changes
C8_Moves(delta) ==
    IF current_result.some /\ Len(current_result.results) > 0
    THEN selected_index' =
            (selected_index + delta) % Len(current_result.results)
    ELSE UNCHANGED <<query, selected_index, current_result, search_future,
                     screen, exit>>
C8_NavigateStep == (OnUp => C8_Moves(-1)) /\ (OnDown => C8_Moves(1))

\* C8: on k > 0 results Up moves the selection to (i - 1) mod k and Down to
\* (i + 1) mod k; with no result set, or an empty one, Up and Down change
\* nothing and draw nothing.
C8_Navigation == [][C8_NavigateStep]_vars

\* Up wrapped from the first entry to the last
C8_Witness ==
    /\ last_handler = "Up"
    /\ current_result.some
    /\ Len(current_result.results) >= 2
    /\ selected_index = Len(current_result.results) - 1

\* C9: whenever a non-empty result set is held, selected_index addresses one
\* of its entries.
C9_IndexInRange ==
    current_result.some /\ current_result.results # <<>> =>
        selected_index \in 0..(Len(current_result.results) - 1)

\* a later completion installed a one-entry list and drew its entry
C9_Witness ==
    /\ last_handler = "SearchComplete"
    /\ Len(completions) >= 2
    /\ current_result.some
    /\ Len(current_result.results) = 1
    /\ below # <<>>
    /\ below[1].kind = "entry"

\* the keys applied in order to the empty string: a character appends, a
\* backspace removes the last character, if there is one
RECURSIVE C10_NetEffect(_)
C10_NetEffect(keys) ==
    IF keys = <<>> THEN <<>>
    ELSE LET before == C10_NetEffect(SubSeq(keys, 1, Len(keys) - 1))
             key == keys[Len(keys)]
         IN  IF key = "Backspace"
             THEN [n \in 1..(Len(before) - 1) |-> before[n]]
             ELSE before \o <<key>>

\* C10: the query is the net effect of the character and backspace keys
\* handled so far, applied in order to the empty string.
C10_QueryIsNetEffect == query = C10_NetEffect(typed)

\* a backspace on the empty query, then a character
C10_Witness ==
    /\ Len(typed) >= 2
    /\ typed[1] = "Backspace"
    /\ query # <<>>


\* a failed search completion was the last handler to run
C11_FailureHandled ==
    /\ last_handler = "SearchComplete"
    /\ completions # <<>>
    /\ ~completions[Len(completions)].ok

\* C11: after a failed search completion is handled, the error text is shown
\* below the query line and the redraw has rendered the "no entries found"
\* state under it.
C11_ErrorThenNotice ==
    C11_FailureHandled =>
        /\ Len(below) = 2
        /\ below[1].kind = "error"
        /\ below[2] = NoticeRow

\* the step handles a search completion that failed
C12_FailureStep ==
    SearchComplete /\ ~completions'[Len(completions')].ok
\* the step handles a character or a backspace
C12_QueryChangeStep == (\E c \in Chars : OnChar(c)) \/ OnBackspace
C12_Step ==
    /\ C12_FailureStep => ~returned' /\ current_result' = None
    /\ ~current_result.some /\ (OnEnter \/ OnUp \/ OnDown) =>
          /\ ~returned'
          /\ UNCHANGED <<query, selected_index, current_result,
                         search_future, screen>>
    /\ ~current_result.some /\ current_result'.some =>
          SearchComplete /\ completions'[Len(completions')].ok
    /\ C12_QueryChangeStep =>
          /\ ~returned'
          /\ search_future' = NewSearch(query', Len(subs'))
          /\ Len(subs') = Len(subs) + 1

\* C12: a search failure (template, exit status or decoding) does not end the
\* session and leaves no result set held; while none is held Enter, Up and
\* Down change nothing, and only a successful completion installs one again;
\* a character or backspace still submits a fresh search.
C12_FailureRecoverable == [][C12_Step]_vars

\* a search failed, and the search submitted after it was delivered and
\* succeeded
C12_Witness ==
    /\ Len(completions) = 2
    /\ ~completions[1].ok
    /\ completions[2].gen > completions[1].gen
    /\ completions[2].ok
    /\ current_result.some
    /\ ~returned

\* a search is pending: submitted and its completion not yet handled
C13_Pending == search_future.state \in {"created", "sleeping", "running"}

\* C13: in every state of a running session in which a search is pending, in
\* its debounce delay or with its external process running, a terminal event
\* that is ready can be handled.
C13_InputNeverBlocked ==
    ~returned /\ events.live /\ C13_Pending => ENABLED OnEsc

\* C14: after Up, Down, Resize or a search completion has redrawn the result
\* list, if a row is displayed then the highlighted first row shows the entry
\* at selected_index of the result set held, the entry Enter would return.
C14_HighlightIsSelection ==
    (/\ ~returned
     /\ last_handler \in {"Up", "Down", "Resize", "SearchComplete"}
     /\ below # <<>>
     /\ below[1].kind = "entry")
    => /\ below[1].highlighted
       /\ below[1].index = selected_index
       /\ <<below[1].identifier>> = EnterBreak(current_result, selected_index)

\* the absolute indices of the rows a redraw of n > 0 entries is to show on a
\* terminal of h rows when the selection is sel
C15_Visible(n, h) ==
    LET room == IF h - 2 > 0 THEN h - 2 ELSE 0
    IN  IF n < room THEN n ELSE room
C15_Expected(n, h, sel) == [r \in 1..C15_Visible(n, h) |-> (sel + (r - 1)) % n]
\* the rows on the screen are entry rows showing these entries of rs
C15_Shows(rows, rs, expected) ==
    /\ Len(rows) = Len(expected)
    /\ \A r \in 1..Len(rows) :
          /\ rows[r].kind = "entry"
          /\ rows[r].index = expected[r]
          /\ rows[r].identifier = rs[expected[r] + 1]
          /\ rows[r].display_index = r - 1
C15_Redrawn(sel) ==
    current_result'.some /\ current_result'.results # <<>> =>
        C15_Shows(below', current_result'.results,
                  C15_Expected(Len(current_result'.results), term_height',
                               sel))
C15_Step ==
    /\ OnUp \/ OnDown => C15_Redrawn(selected_index')
    /\ (\E h \in Heights : OnResize(h)) => C15_Redrawn(selected_index)
    /\ SearchComplete => C15_Redrawn(selected_index)
    /\ OnDown /\ current_result.some
         /\ Len(current_result.results) = 5 /\ term_height = 5 =>
            /\ Len(below') = 3
            /\ below'[1].index = (selected_index + 1) % 5

\* C15: a redraw of n > 0 entries on a terminal of h rows, given selection s,
\* draws exactly min(n, max(h - 2, 0)) rows, row r showing entry
\* (s + r) mod n; with 5 entries and 3 visible rows each Down moves the first
\* row to the next entry, modulo 5.
C15_RowsDrawn == [][C15_Step]_vars

\* Scenario C: five Down presses on five entries and three visible rows have
\* brought the first row through 1, 2, 3, 4 and back to entry 0
C15_Witness ==
    /\ events = Script(<<>>)
    /\ query_command = "echo_five"
    /\ last_handler = "Down"
    /\ current_result = Some(FiveEntries)
    /\ selected_index = 0
    /\ Len(below) = 3
    /\ below[1].index = 0
    /\ below[3].index = 2

\* C16: when a redraw of the query line or of the result list fails inside a
\* handler, the session returns that error, and by then the terminal cleanup
\* is done: the cursor at the start of its line and everything from the
\* cursor down cleared.
C16_CleanupOnRedrawFailure ==
    (/\ returned
     /\ result = Err("write")
     /\ last_handler \in {"Char", "Backspace", "Up", "Down", "Resize",
                          "SearchComplete"})
    => /\ cursor.col = 0
       /\ query_line = <<>>
       /\ below = <<>>

\* C17: every completion handled is of a search that was submitted, and no
\* search is handled twice; once the latest search has been handled, and
\* before any search was submitted, the future is terminated and the
\* completion branch cannot fire.
C17_HandledOnce ==
    /\ \A n \in DOMAIN completions : completions[n].gen \in 1..Len(subs)
    /\ \A m, n \in DOMAIN completions :
          m < n => completions[m].gen < completions[n].gen
    /\ (subs = <<>> \/ (completions # <<>> /\
                        completions[Len(completions)].gen = Len(subs)))
          => search_future.state = "terminated" /\ ~ENABLED SearchComplete

\* the one search submitted was handled once, and afterwards time passed
\* beyond its delay and a terminal event was handled
C17_Witness ==
    /\ Len(subs) = 1
    /\ Len(completions) = 1
    /\ now > subs[1].t + timeout_millis
    /\ last_handler = "Resize"
    /\ ~returned

\* the step handles a Resize event
C18_ResizeStep == \E h \in Heights : OnResize(h)
\* the lines below the query line are the result list drawn from cr and sel
C18_ListDrawn(rows, cr, sel, h) ==
    IF ~cr.some THEN rows = <<>>
    ELSE IF cr.results = <<>> THEN rows = <<NoticeRow>>
    ELSE C15_Shows(rows, cr.results, C15_Expected(Len(cr.results), h, sel))
C18_Step ==
    C18_ResizeStep =>
        /\ UNCHANGED <<query, current_result, selected_index, search_future>>
        /\ ~returned'
        /\ UNCHANGED <<query_line, saved>>
        /\ C18_ListDrawn(below', current_result, selected_index, term_height')

\* C18: handling a Resize event changes none of the query, the result set,
\* the selection and the pending search (neither replaced nor its delay
\* restarted); it only redraws the result list from the result set and the
\* selection held.
C18_ResizeOnlyRedraws == [][C18_Step]_vars

\* a Resize was handled while a search was in its delay and a result list with
\* a selection other than the first entry was shown
C18_Witness ==
    /\ last_handler = "Resize"
    /\ search_future.state = "sleeping"
    /\ current_result.some
    /\ selected_index > 0
    /\ below # <<>>
    /\ below[1].index = selected_index

\* C19: whenever a search is pending, the query text it captured is the
\* current query; and when a completion has just been handled, the search it
\* belongs to was run for the query that is current then.
C19_PendingQueryCurrent ==
    /\ C13_Pending => search_future.query = query
    /\ last_handler = "SearchComplete" =>
          completions[Len(completions)].q = query

\* the second search, for a non-empty query, has installed its result set
C19_Witness ==
    /\ last_handler = "SearchComplete"
    /\ Len(subs) = 2
    /\ completions[Len(completions)].gen = 2
    /\ current_result.some
    /\ query # <<>>
    /\ subs[1].q # query

\* Enter ended the session while a search submitted later than the one that
\* produced the result set held was still pending: the identifier returned is
\* of an entry of that older result set
C20_StaleEnter ==
    last_handler = "Enter" /\ returned /\ C13_Pending =>
        /\ completions # <<>>
        /\ completions[Len(completions)].ok
        /\ completions[Len(completions)].gen < search_future.gen
        /\ current_result.some
        /\ result = OkSome(current_result.results[selected_index + 1])
C20_Step ==
    /\ C12_QueryChangeStep => UNCHANGED <<current_result, selected_index>>
    /\ C20_StaleEnter'

\* the result set held when such an Enter ended the session was computed for
\* a query text other than the current one
C20_OtherText ==
    last_handler = "Enter" /\ returned /\ C13_Pending =>
        /\ completions # <<>>
        /\ completions[Len(completions)].q # query
C20_StepAsClaimed == C20_Step /\ C20_OtherText'

\* C20 as claimed: character and backspace events leave the result set and
\* the selection unchanged; so an Enter handled after a query change and
\* before the newly submitted search completes ends the session with the
\* identifier of an entry of a result set computed for an earlier query
\* text, not for the current query.
C20_StaleForOtherText == [][C20_StepAsClaimed]_vars

\* C20 amended: character and backspace events leave the result set and the
\* selection unchanged; so an Enter handled after a query change and before
\* the newly submitted search completes ends the session with the identifier
\* of an entry of the result set installed by an earlier search, not by the
\* search submitted for the current query (the earlier search's query text
\* may coincide with the current one).
C20_QueryChangeKeepsResults == [][C20_Step]_vars

\* Enter returned an entry found for an earlier query text while the search
\* for the current one was pending
C20_Witness ==
    /\ last_handler = "Enter"
    /\ returned
    /\ C13_Pending
    /\ search_future.query = query
    /\ completions[Len(completions)].q # query
    /\ selected_index > 0
    /\ result = OkSome(current_result.results[selected_index + 1])

====
